---- MODULE Spec2Model ----
(***************************************************************************)
(* Model of task3.js: a generalised rock-paper-scissors game over an odd   *)
(* number of moves with an HMAC commitment to the computer's move.         *)
(*                                                                         *)
(* Strings that the program takes apart (the stdin chunk, the hex key) are *)
(* sequences of one-character strings; move labels are opaque strings.     *)
(* Array indices are kept 0-based as in the JavaScript source; a JS access *)
(* a[i] is Nth0(a, i).                                                     *)
(***************************************************************************)
EXTENDS Integers, Sequences, FiniteSets, TLC

VARIABLES
    args,          \* process.argv.slice(2)
    pc,            \* position of the process / state of the session
    moves,         \* RockPaperScissorsGame.moves (= PlayRules.moves = HelpTable.moves)
    key,           \* start(): const key
    computerMove,  \* start(): const computerMove
    hmac,          \* start(): const hmac
    out,           \* lines written with console.log, in order
    err,           \* lines written with console.error, in order
    lastInput,     \* the chunk d handled by the last 'data' event
    nInputs,       \* number of 'data' events handled so far
    winnerCall,    \* last call of PlayRules.determineWinner: arguments and return value
    table,         \* rows pushed by the last HelpTable.display()
    draws          \* what start() drew: the bytes of crypto.randomBytes and the
                   \* sample k of Math.random() = k / RandRes

vars == <<args, pc, moves, key, computerMove, hmac, out, err, lastInput, nInputs,
          winnerCall, table, draws>>

----------------------------------------------------------------------------
(* Bounds of the model *)

\* longest argument list tried
MaxArgs == 7
\* number of random bytes of a key (the program draws 32)
KeyBytes == 1
\* Math.random() is sampled at k / RandRes, k in 0..RandRes-1
RandRes == 8
\* number of 'data' events a session handles
MaxInputs == 3

----------------------------------------------------------------------------
(* JavaScript primitives used by the program *)

\* the value of a[i] for an index outside the array
Undefined == "undefined"

Nth0(a, i) == IF 0 <= i /\ i < Len(a) THEN a[i + 1] ELSE Undefined

Range(a) == {a[i] : i \in 1..Len(a)}

\* Array.prototype.indexOf: first 0-based position of x, -1 when absent
IndexOf(a, x) ==
    IF x \in Range(a)
    THEN (CHOOSE i \in 1..Len(a) : a[i] = x /\ \A k \in 1..(i - 1) : a[k] # x) - 1
    ELSE -1

\* new Set(a).size
SetSize(a) == Cardinality(Range(a))

Digits == <<"0", "1", "2", "3", "4", "5", "6", "7", "8", "9">>

HexDigits == <<"0", "1", "2", "3", "4", "5", "6", "7", "8", "9",
               "a", "b", "c", "d", "e", "f">>

WhiteSpace == {" ", "\t", "\n", "\r"}

IsDigit(ch) == ch \in Range(Digits)

DigitVal(ch) == (CHOOSE i \in 1..10 : Digits[i] = ch) - 1

\* String(n) for a natural number n
RECURSIVE ToDecimal(_)
ToDecimal(n) ==
    IF n < 10 THEN <<Digits[n + 1]>>
    ELSE ToDecimal(n \div 10) \o <<Digits[(n % 10) + 1]>>

RECURSIVE TrimStart(_)
TrimStart(s) ==
    IF s # <<>> /\ Head(s) \in WhiteSpace THEN TrimStart(Tail(s)) ELSE s

RECURSIVE TrimEnd(_)
TrimEnd(s) ==
    IF s # <<>> /\ s[Len(s)] \in WhiteSpace
    THEN TrimEnd(SubSeq(s, 1, Len(s) - 1))
    ELSE s

\* String.prototype.trim
Trim(s) == TrimEnd(TrimStart(s))

\* the longest prefix of s made of decimal digits
RECURSIVE DigitPrefix(_)
DigitPrefix(s) ==
    IF s # <<>> /\ IsDigit(Head(s)) THEN <<Head(s)>> \o DigitPrefix(Tail(s)) ELSE <<>>

RECURSIVE DecimalValue(_)
DecimalValue(ds) ==
    IF ds = <<>> THEN 0
    ELSE 10 * DecimalValue(SubSeq(ds, 1, Len(ds) - 1)) + DigitVal(ds[Len(ds)])

NaN == [nan |-> TRUE, val |-> 0]

Num(n) == [nan |-> FALSE, val |-> n]

\* parseInt(s, 10): leading white space is skipped, one sign is accepted, the
\* digits up to the first other character are read; NaN when there is no digit
ParseInt(s) ==
    LET t    == TrimStart(s)
        neg  == t # <<>> /\ Head(t) = "-"
        body == IF t # <<>> /\ Head(t) \in {"+", "-"} THEN Tail(t) ELSE t
        ds   == DigitPrefix(body)
    IN  IF ds = <<>> THEN NaN
        ELSE Num(IF neg THEN 0 - DecimalValue(ds) ELSE DecimalValue(ds))

\* x - n on JS numbers: NaN stays NaN
Minus(x, n) == IF x.nan THEN NaN ELSE Num(x.val - n)

\* x >= n and x < n on JS numbers: every comparison with NaN is false
Geq(x, n) == ~x.nan /\ x.val >= n

\* the upper comparison written <= for <
Less_OrEqual(x, n) == ~x.nan /\ x.val <= n

Less(x, n) == ~x.nan /\ x.val < n

\* Math.ceil for Math.floor
FloorRandomTimes_Ceil(k, n) == ((k * n) + (RandRes - 1)) \div RandRes

\* Math.floor(r * n) for r = k / RandRes
FloorRandomTimes(k, n) == (k * n) \div RandRes

----------------------------------------------------------------------------
(* CryptoGenerate *)

\* the byte values crypto.randomBytes is sampled over
ByteSample == {15, 160, 255}

RandomBytes(n) == [1..n -> ByteSample]

RECURSIVE ToHex(_)
ToHex(bytes) ==
    IF bytes = <<>> THEN <<>>
    ELSE <<HexDigits[(Head(bytes) \div 16) + 1], HexDigits[(Head(bytes) % 16) + 1]>>
         \o ToHex(Tail(bytes))

generateKey(bytes) == ToHex(bytes)

\* HMAC-SHA256 as an ideal keyed digest: a deterministic term of key and
\* message, equal for equal inputs and different for different inputs
generateHMAC(k, message) == <<"hmac-sha256", k, message>>

----------------------------------------------------------------------------
(* PlayRules *)

Outcomes == {"Draw", "Computer wins", "You win"}

\* determineWinner with the window's far end left out (< for <=)
determineWinner_OpenWindow(ms, userMove, computerMoveArg) ==
    LET numMoves      == Len(ms)
        userIndex     == IndexOf(ms, userMove)
        computerIndex == IndexOf(ms, computerMoveArg)
        half          == numMoves \div 2
    IN  IF userIndex = computerIndex THEN "Draw"
        ELSE IF \/ (computerIndex > userIndex /\ computerIndex < userIndex + half)
                \/ (computerIndex < userIndex
                       /\ computerIndex + numMoves < userIndex + half)
             THEN "Computer wins"
             ELSE "You win"

\* determineWinner without the wrap-around half of the condition
determineWinner_NoWrap(ms, userMove, computerMoveArg) ==
    LET numMoves      == Len(ms)
        userIndex     == IndexOf(ms, userMove)
        computerIndex == IndexOf(ms, computerMoveArg)
        half          == numMoves \div 2
    IN  IF userIndex = computerIndex THEN "Draw"
        ELSE IF computerIndex > userIndex /\ computerIndex <= userIndex + half
             THEN "Computer wins"
             ELSE "You win"

\* determineWinner with the two indices taken the other way round
determineWinner_Swapped(ms, userMove, computerMoveArg) ==
    LET numMoves      == Len(ms)
        userIndex     == IndexOf(ms, computerMoveArg)
        computerIndex == IndexOf(ms, userMove)
        half          == numMoves \div 2
    IN  IF userIndex = computerIndex THEN "Draw"
        ELSE IF \/ (computerIndex > userIndex /\ computerIndex <= userIndex + half)
                \/ (computerIndex < userIndex
                       /\ computerIndex + numMoves <= userIndex + half)
             THEN "Computer wins"
             ELSE "You win"

\* PlayRules.determineWinner on a PlayRules built from the list ms
determineWinner(ms, userMove, computerMoveArg) ==
    LET numMoves      == Len(ms)
        userIndex     == IndexOf(ms, userMove)
        computerIndex == IndexOf(ms, computerMoveArg)
        half          == numMoves \div 2
    IN  IF userIndex = computerIndex THEN "Draw"
        ELSE IF \/ (computerIndex > userIndex /\ computerIndex <= userIndex + half)
                \/ (computerIndex < userIndex
                       /\ computerIndex + numMoves <= userIndex + half)
             THEN "Computer wins"
             ELSE "You win"

----------------------------------------------------------------------------
(* HelpTable *)

\* a help cell with row and column taken the other way round
HelpCell_Transposed(numMoves, i, j) ==
    LET half == numMoves \div 2
    IN  IF i = j THEN "Draw"
        ELSE IF (i > j /\ i <= j + half) \/ (i < j /\ i + numMoves <= j + half)
             THEN "Win"
             ELSE "Lose"

\* a help cell whose window leaves out its far end (< for <=)
HelpCell_OpenWindow(numMoves, i, j) ==
    LET half == numMoves \div 2
    IN  IF i = j THEN "Draw"
        ELSE IF (j > i /\ j < i + half) \/ (j < i /\ j + numMoves < i + half)
             THEN "Win"
             ELSE "Lose"

\* the cell pushed for row i, column j (0-based) of a table over numMoves moves
HelpCell(numMoves, i, j) ==
    LET half == numMoves \div 2
    IN  IF i = j THEN "Draw"
        ELSE IF (j > i /\ j <= i + half) \/ (j < i /\ j + numMoves <= i + half)
             THEN "Win"
             ELSE "Lose"

\* the head of the table: the corner label, then the moves as column labels
HelpHead(ms) == <<"v PC\\User >">> \o ms

\* the rows pushed to the table: row i is moves[i] followed by its cells
HelpRows(ms) ==
    [i \in 1..Len(ms) |->
        <<ms[i]>> \o [j \in 1..Len(ms) |-> HelpCell(Len(ms), i - 1, j - 1)]]

----------------------------------------------------------------------------
(* Console output *)

Line(kind, val) == [kind |-> kind, val |-> val]

\* the menu: 'Available moves:', one line per move, '0 - exit', '? - help'
MenuLines(ms) ==
    <<Line("text", "Available moves:")>>
    \o [i \in 1..Len(ms) |-> Line("option", <<ToDecimal((i - 1) + 1), ms[i]>>)]
    \o <<Line("text", "0 - exit"), Line("text", "? - help")>>

\* start() that also prints the key it has just drawn
StartLines_LeakKey(h, k, ms) == <<Line("HMAC", h), Line("HMAC key", k)>> \o MenuLines(ms)

\* what start() prints
StartLines(h, k, ms) == <<Line("HMAC", h)>> \o MenuLines(ms)

\* a reveal that prints the user's move on the 'Computer move' line
RevealLines_WrongMove(userMove, computerMoveArg, result, k) ==
    <<Line("Your move", userMove),
      Line("Computer move", userMove),
      Line("result", result),
      Line("HMAC key", k)>>

\* a reveal that leaves the key out
RevealLines_NoKey(userMove, computerMoveArg, result, k) ==
    <<Line("Your move", userMove),
      Line("Computer move", computerMoveArg),
      Line("result", result)>>

\* what the listener prints for a valid selection
RevealLines(userMove, computerMoveArg, result, k) ==
    <<Line("Your move", userMove),
      Line("Computer move", computerMoveArg),
      Line("result", result),
      Line("HMAC key", k)>>

\* what HelpTable.display() and the listener print for '?'
HelpLines(ms) ==
    <<Line("text", "The results are from the user's point of view."),
      Line("table", [head |-> HelpHead(ms), rows |-> HelpRows(ms)]),
      Line("text", "Enter your move:")>>

\* an invalid selection that prints a tag again, over another move
InvalidLines_NewTag(ms) ==
    <<Line("text", "Invalid move. Please try again."),
      Line("HMAC", generateHMAC(<<>>, ms[1]))>> \o MenuLines(ms)

\* what the listener prints for a selection that is no move
InvalidLines(ms) == <<Line("text", "Invalid move. Please try again.")>> \o MenuLines(ms)

\* an exit that prints the key before leaving
ExitLines_Reveal == <<Line("text", "Exiting the game."), Line("HMAC key", key)>>

ExitLines == <<Line("text", "Exiting the game.")>>

ErrorLines ==
    <<Line("text", "Error: You must provide an odd number of non-repeating strings (>= 3) as command line arguments."),
      Line("text", "Example: node game.js rock paper scissors")>>

----------------------------------------------------------------------------
(* Inputs *)

Labels1 == <<"Rock", "Paper", "Scissors", "Lizard", "Spock", "Fire", "Water", "Air", "Sponge">>

Labels2 == <<"Rock", "Spock", "Paper", "Lizard", "Scissors", "Fire", "Water", "Air", "Sponge">>

\* argument lists: prefixes of two orderings, and prefixes with a repeated label
ArgLists ==
    {SubSeq(L, 1, n) : L \in {Labels1, Labels2}, n \in 0..MaxArgs}
    \cup {[SubSeq(Labels1, 1, n) EXCEPT ![n] = Labels1[1]] : n \in 2..MaxArgs}

\* an argument check that does not look for repeated labels
ArgsRejected_NoSetCheck(a) == Len(a) < 3 \/ Len(a) % 2 = 0

\* the check of the argument list at the top level of the script
ArgsRejected(a) == Len(a) < 3 \/ Len(a) % 2 = 0 \/ SetSize(a) # Len(a)

\* chunks delivered by stdin: every selection number up to one past the longest
\* list, the two commands, and lines that are no plain number
Chunks ==
    {ToDecimal(n) \o <<"\n">> : n \in 0..(MaxArgs + 1)}
    \cup { <<"?", "\n">>,
           <<"\n">>,
           <<"a", "b", "\n">>,
           <<" ", "2", " ", "\r", "\n">>,
           <<"2", "x", "\n">>,
           <<"-", "1", "\n">>,
           <<"0", "0", "\n">>,
           <<"+", "3", "\n">>,
           <<"1", "\n", "9", "\n">> }

NoDraws == [bytes |-> <<>>, k |-> 0]

NoCall == [userMove |-> "", computerMove |-> "", result |-> ""]

----------------------------------------------------------------------------
(* The process *)

Init ==
    /\ args \in ArgLists
    /\ pc = "Start"
    /\ moves = <<>>
    /\ key = <<>>
    /\ computerMove = ""
    /\ hmac = <<>>
    /\ out = <<>>
    /\ err = <<>>
    /\ lastInput = <<>>
    /\ nInputs = 0
    /\ winnerCall = NoCall
    /\ table = <<>>
    /\ draws = NoDraws

\* top level of the script: the argument check, then new RockPaperScissorsGame(args)
Main ==
    /\ pc = "Start"
    /\ IF ArgsRejected(args)
       THEN /\ err' = err \o ErrorLines
            /\ pc' = "Rejected"
            /\ moves' = moves
       ELSE /\ moves' = args
            /\ pc' = "Configured"
            /\ err' = err
    /\ UNCHANGED <<args, key, computerMove, hmac, out, lastInput, nInputs, winnerCall,
                   table, draws>>

\* start(), first part: the key, the computer's move and the HMAC are computed
StartCommit ==
    /\ pc = "Configured"
    /\ \E bytes \in RandomBytes(KeyBytes), r \in 0..(RandRes - 1) :
          /\ key' = generateKey(bytes)
          /\ computerMove' = Nth0(moves, FloorRandomTimes(r, Len(moves)))
          /\ hmac' = generateHMAC(key', computerMove')
          /\ draws' = [bytes |-> bytes, k |-> r]
    /\ pc' = "Committed"
    /\ UNCHANGED <<args, moves, out, err, lastInput, nInputs, winnerCall, table>>

\* start(), second part: the HMAC and the menu are printed, then getUserMove
\* opens stdin and registers the listener
StartDisplay ==
    /\ pc = "Committed"
    /\ out' = out \o StartLines(hmac, key, moves)
    /\ pc' = "AwaitingHumanMove"
    /\ UNCHANGED <<args, moves, key, computerMove, hmac, err, lastInput, nInputs,
                   winnerCall, table, draws>>

\* a listener that stays registered after the reveal (no process.exit())
ListenerActive_NoExit == pc \in {"AwaitingHumanMove", "Resolved"}

\* the listener is registered and the process has not called process.exit()
ListenerActive == pc = "AwaitingHumanMove"

\* the 'data' listener of getUserMove, for the chunk d
OnData(d) ==
    /\ ListenerActive
    /\ nInputs < MaxInputs
    /\ lastInput' = d
    /\ nInputs' = nInputs + 1
    /\ LET input     == Trim(d)
           moveIndex == Minus(ParseInt(input), 1)
       IN  IF input = <<"0">>
           THEN /\ out' = out \o ExitLines
                /\ pc' = "Exited"
                /\ UNCHANGED <<winnerCall, table>>
           ELSE IF input = <<"?">>
           THEN /\ table' = HelpRows(moves)
                /\ out' = out \o HelpLines(moves)
                /\ UNCHANGED <<pc, winnerCall>>
           ELSE IF Geq(moveIndex, 0) /\ Less(moveIndex, Len(moves))
           THEN LET userMove == Nth0(moves, moveIndex.val)
                    result   == determineWinner(moves, userMove, computerMove)
                IN  /\ winnerCall' = [userMove |-> userMove,
                                      computerMove |-> computerMove,
                                      result |-> result]
                    /\ out' = out \o RevealLines(userMove, computerMove, result, key)
                    /\ pc' = "Resolved"
                    /\ table' = table
           ELSE /\ out' = out \o InvalidLines(moves)
                /\ UNCHANGED <<pc, winnerCall, table>>
    /\ UNCHANGED <<args, moves, key, computerMove, hmac, err, draws>>

Next ==
    \/ Main
    \/ StartCommit
    \/ StartDisplay
    \/ \E d \in Chunks : OnData(d)

Spec == Init /\ [][Next]_vars

----------------------------------------------------------------------------
(* PlayRules and HelpTable on their own: built over an accepted list, then   *)
(* called with any pair of labels                                            *)

\* a label that is in no list
UnknownLabel == "Well"

RulesInit ==
    /\ args \in {a \in ArgLists : ~ArgsRejected(a)}
    /\ pc = "Configured"
    /\ moves = args
    /\ key = <<>>
    /\ computerMove = ""
    /\ hmac = <<>>
    /\ out = <<>>
    /\ err = <<>>
    /\ lastInput = <<>>
    /\ nInputs = 0
    /\ winnerCall = NoCall
    /\ table = <<>>
    /\ draws = NoDraws

\* rules.determineWinner(a, b)
RulesCall(a, b) ==
    /\ winnerCall' = [userMove |-> a, computerMove |-> b,
                      result |-> determineWinner(moves, a, b)]
    /\ UNCHANGED <<args, pc, moves, key, computerMove, hmac, out, err, lastInput,
                   nInputs, table, draws>>

\* new HelpTable(moves).display()
RulesDisplay ==
    /\ table' = HelpRows(moves)
    /\ UNCHANGED <<args, pc, moves, key, computerMove, hmac, out, err, lastInput,
                   nInputs, winnerCall, draws>>

RulesNext ==
    \/ \E a, b \in Range(moves) \cup {UnknownLabel} : RulesCall(a, b)
    \/ RulesDisplay

RulesSpec == RulesInit /\ [][RulesNext]_vars

----------------------------------------------------------------------------
(* What the console shows *)

\* the values printed on the lines of one kind, in order
Shown(kind) ==
    LET IsKind(l) == l.kind = kind
        ls        == SelectSeq(out, IsKind)
    IN  [i \in 1..Len(ls) |-> ls[i].val]

\* position of the first line of a kind in out, 0 when there is none
FirstAt(kind) ==
    IF \E i \in 1..Len(out) : out[i].kind = kind
    THEN CHOOSE i \in 1..Len(out) :
            out[i].kind = kind /\ \A k \in 1..(i - 1) : out[k].kind # kind
    ELSE 0

SessionStates == {"Configured", "Committed", "AwaitingHumanMove", "Resolved"}

----------------------------------------------------------------------------
(* Claims about the session *)

\* C1: whenever the listener has been registered (so in every state in which an
\* input has been or can be handled) the first line on the console is the HMAC
\* of the computer's move under the key; and the key is on the console only in
\* Resolved, after the line that fixes the user's move, which is a move of the
\* list selected by the last input.
C1_CommitBeforeInput ==
    /\ (pc \in {"AwaitingHumanMove", "Resolved", "Exited"} \/ nInputs > 0)
          => /\ Len(out) >= 1
             /\ out[1] = Line("HMAC", generateHMAC(key, computerMove))
             /\ key # <<>>
             /\ computerMove \in Range(moves)
    /\ Shown("HMAC key") # <<>>
          => /\ pc = "Resolved"
             /\ nInputs > 0
             /\ FirstAt("Your move") > 0
             /\ FirstAt("Your move") < FirstAt("HMAC key")
             /\ FirstAt("HMAC") < FirstAt("Your move")
             /\ Shown("Your move") = <<winnerCall.userMove>>
             /\ winnerCall.userMove \in Range(moves)

\* C1 witness: inputs have been handled, the last one a valid selection, and
\* the key is shown after the HMAC and the user's move
C1_Witness ==
    /\ pc = "Resolved"
    /\ nInputs = 2
    /\ FirstAt("HMAC") = 1
    /\ FirstAt("HMAC key") = Len(out)

\* C2: in Resolved the console holds exactly one HMAC, one computer move and one
\* key, and the HMAC recomputed from the revealed key and the revealed move is
\* the HMAC that was displayed.
C2_RevealMatchesCommitment ==
    pc = "Resolved"
        => /\ Len(Shown("HMAC")) = 1
           /\ Len(Shown("HMAC key")) = 1
           /\ Len(Shown("Computer move")) = 1
           /\ generateHMAC(Shown("HMAC key")[1], Shown("Computer move")[1])
                 = Shown("HMAC")[1]

\* C2 witness: a session resolved after a help request and an invalid input,
\* in which the user's move differs from the computer's
C2_Witness ==
    /\ pc = "Resolved"
    /\ nInputs = 3
    /\ table # <<>>
    /\ \E i \in 1..Len(out) : out[i] = Line("text", "Invalid move. Please try again.")
    /\ winnerCall.userMove # winnerCall.computerMove
    /\ generateHMAC(Shown("HMAC key")[1], Shown("Computer move")[1]) = hmac

\* C9 as stated: once the session exists it is in one of the four states
\* Configured, Committed, AwaitingHumanMove, Resolved.
C9_OnlyFourStates ==
    moves # <<>> => pc \in SessionStates

\* the steps a session can take
SessionSteps ==
    { <<"Configured", "Committed">>,
      <<"Committed", "AwaitingHumanMove">>,
      <<"AwaitingHumanMove", "AwaitingHumanMove">>,
      <<"AwaitingHumanMove", "Resolved">>,
      <<"AwaitingHumanMove", "Exited">> }

\* C9 amended: every step of a session follows Configured -> Committed ->
\* AwaitingHumanMove -> Resolved, with AwaitingHumanMove repeating and with one
\* more terminal state, Exited, entered from AwaitingHumanMove (input '0');
\* nothing changes after Resolved or Exited.
C9_LinearWithExit ==
    [][ /\ pc \in SessionStates \cup {"Exited"} => <<pc, pc'>> \in SessionSteps
        /\ pc' = "Exited" => Trim(lastInput') = <<"0">> ]_vars

\* C9 witness: a session that left AwaitingHumanMove through the exit command
\* after handling other inputs
C9_Witness ==
    /\ pc = "Exited"
    /\ nInputs = 3
    /\ Trim(lastInput) = <<"0">>

\* C10: outside Resolved the console shows no key, no computer move, no outcome
\* and no user move, and once the listener is registered it shows exactly one
\* HMAC; in Resolved it shows the computer's move, the outcome returned by
\* determineWinner and the key, each exactly once.
C10_RevealTogether ==
    /\ pc # "Resolved"
          => /\ Shown("HMAC key") = <<>>
             /\ Shown("Computer move") = <<>>
             /\ Shown("result") = <<>>
             /\ Shown("Your move") = <<>>
    /\ pc \in {"AwaitingHumanMove", "Exited"} => Shown("HMAC") = <<hmac>>
    /\ pc = "Resolved"
          => /\ Shown("HMAC key") = <<key>>
             /\ Shown("Computer move") = <<computerMove>>
             /\ Shown("result")
                   = <<determineWinner(moves, winnerCall.userMove, computerMove)>>
             /\ Shown("HMAC") = <<hmac>>

\* C10 witness: a session resolved by its first input, all three values shown
C10_Witness ==
    /\ pc = "Resolved"
    /\ nInputs = 1
    /\ Shown("HMAC key") = <<key>>
    /\ Shown("Computer move") = <<computerMove>>
    /\ Shown("result") = <<"You win">>

----------------------------------------------------------------------------
(* Claims about the rules *)

\* the rule in modular form: d = (c - u) mod n
ModularOutcome(n, u, c) ==
    LET d    == (c - u) % n
        half == n \div 2
    IN  IF d = 0 THEN "Draw"
        ELSE IF 1 <= d /\ d <= half THEN "Computer wins"
        ELSE "You win"

\* determineWinner has been called with two moves of the list
CalledOnMoves ==
    /\ winnerCall # NoCall
    /\ winnerCall.userMove \in Range(moves)
    /\ winnerCall.computerMove \in Range(moves)

CallU == IndexOf(moves, winnerCall.userMove)

CallC == IndexOf(moves, winnerCall.computerMove)

NumMoves == Len(moves)

Half == Len(moves) \div 2

\* C3: for an accepted list (odd length >= 3) and every call on two of its
\* moves, the value determineWinner returned is the outcome of the modular rule
\* on d = (c - u) mod N, the boundary d = half being a win of the computer.
C3_DisjunctiveIsModular ==
    CalledOnMoves
        => /\ NumMoves % 2 = 1 /\ NumMoves >= 3
           /\ winnerCall.result = ModularOutcome(NumMoves, CallU, CallC)
           /\ (CallC - CallU) % NumMoves = Half => winnerCall.result = "Computer wins"

\* C3 witness: a call over seven moves on the boundary d = half, reached by
\* wrapping around the end of the list
C3_Witness ==
    /\ CalledOnMoves
    /\ NumMoves = 7
    /\ CallU = 5
    /\ CallC = 1
    /\ winnerCall.result = "Computer wins"

\* C4: a call on twice the same move returns 'Draw'; a call on two distinct
\* moves never does, and the call with the two moves exchanged returns the
\* other side as the winner.
C4_Antisymmetric ==
    CalledOnMoves
        => LET back == determineWinner(moves, winnerCall.computerMove,
                                       winnerCall.userMove)
           IN  /\ winnerCall.userMove = winnerCall.computerMove
                     => winnerCall.result = "Draw"
               /\ winnerCall.userMove # winnerCall.computerMove
                     => /\ winnerCall.result \in {"You win", "Computer wins"}
                        /\ back \in {"You win", "Computer wins"}
                        /\ back # winnerCall.result

\* C4 witness: a call the user wins whose exchanged call the computer wins,
\* the user's move standing after the computer's in the list
C4_Witness ==
    /\ CalledOnMoves
    /\ NumMoves = 5
    /\ CallU = 4
    /\ CallC = 2
    /\ winnerCall.result = "You win"
    /\ determineWinner(moves, winnerCall.computerMove, winnerCall.userMove)
          = "Computer wins"

\* C5: for the user's move A of a call, exactly floor(N/2) moves B of the list
\* give 'You win' and exactly floor(N/2) give 'Computer wins'.
C5_EvenSplit ==
    CalledOnMoves
        => LET A == winnerCall.userMove
               Against(r) == {B \in Range(moves) : determineWinner(moves, A, B) = r}
           IN  /\ Cardinality(Against("You win")) = Half
               /\ Cardinality(Against("Computer wins")) = Half
               /\ winnerCall.computerMove \in Against(winnerCall.result)

\* C5 witness: a call over seven moves for a move in the middle of the list,
\* which wins against three moves
C5_Witness ==
    /\ CalledOnMoves
    /\ NumMoves = 7
    /\ CallU = 3
    /\ Cardinality({B \in Range(moves) :
                       determineWinner(moves, winnerCall.userMove, B) = "You win"}) = 3

\* C6 as stated: a call whose computer move is one of the half moves following
\* the user's move in cyclic order returns 'You win', and a call whose computer
\* move is one of the half moves preceding it returns 'Computer wins'.
C6_BeatsFollowing ==
    CalledOnMoves
        => /\ (CallC - CallU) % NumMoves \in 1..Half => winnerCall.result = "You win"
           /\ (CallU - CallC) % NumMoves \in 1..Half
                 => winnerCall.result = "Computer wins"

\* C6 amended: the move at index i loses to the half moves immediately
\* following it in cyclic order and beats the half moves immediately preceding
\* it: a call with c = (u + k) mod N, k in 1..half, returns 'Computer wins', and
\* a call with c = (u - k) mod N returns 'You win'.
C6_BeatsPreceding ==
    CalledOnMoves
        => /\ (CallC - CallU) % NumMoves \in 1..Half
                 => winnerCall.result = "Computer wins"
           /\ (CallU - CallC) % NumMoves \in 1..Half => winnerCall.result = "You win"
           /\ \A k \in 1..Half :
                 /\ determineWinner(moves, winnerCall.userMove,
                                    Nth0(moves, (CallU + k) % NumMoves)) = "Computer wins"
                 /\ determineWinner(moves, winnerCall.userMove,
                                    Nth0(moves, (CallU - k) % NumMoves)) = "You win"

\* C6 witness: the user's move is the last of five and the computer's the one
\* two places after it in cyclic order; the computer wins
C6_Witness ==
    /\ CalledOnMoves
    /\ NumMoves = 5
    /\ CallU = 4
    /\ CallC = 1
    /\ winnerCall.result = "Computer wins"

\* the help-table word for an outcome of determineWinner
HelpWord(result) ==
    CASE result = "Draw" -> "Draw"
      [] result = "You win" -> "Win"
      [] result = "Computer wins" -> "Lose"

\* the cell of the displayed table in row i, column j (0-based): the row's
\* first entry is its label
TableCell(i, j) == Nth0(Nth0(table, i), j + 1)

\* C7: in the table built by display(), row i is labelled moves[i], and its cell
\* in column j is the help word for determineWinner(moves[j], moves[i]), the
\* row's move being the computer's and the column's the user's.
C7_TableAgreesWithRule ==
    table # <<>>
        => /\ Len(table) = NumMoves
           /\ \A i \in 0..(NumMoves - 1) :
                 /\ Len(Nth0(table, i)) = NumMoves + 1
                 /\ Nth0(table, i)[1] = Nth0(moves, i)
                 /\ \A j \in 0..(NumMoves - 1) :
                       TableCell(i, j)
                          = HelpWord(determineWinner(moves, Nth0(moves, j), Nth0(moves, i)))

\* C7 witness: a table over five moves with a 'Win' cell above the diagonal and
\* a 'Lose' cell on the same row
C7_Witness ==
    /\ table # <<>>
    /\ NumMoves = 5
    /\ TableCell(0, 2) = "Win"
    /\ TableCell(0, 3) = "Lose"

\* C8: in the table built by display(), every diagonal cell is 'Draw', and for
\* i # j one of the cells (i, j), (j, i) is 'Win' and the other 'Lose'.
C8_TableComplementary ==
    table # <<>>
        => \A i, j \in 0..(NumMoves - 1) :
              /\ i = j => TableCell(i, j) = "Draw"
              /\ i # j => {TableCell(i, j), TableCell(j, i)} = {"Win", "Lose"}

\* C8 witness: a table over seven moves whose cells (1, 4) and (4, 1) are
\* 'Win' and 'Lose'
C8_Witness ==
    /\ table # <<>>
    /\ NumMoves = 7
    /\ TableCell(1, 4) = "Win"
    /\ TableCell(4, 1) = "Lose"
    /\ TableCell(4, 4) = "Draw"

----------------------------------------------------------------------------
(* Claims about unknown moves, the argument check and the fixtures *)

\* C11 as stated: a call of determineWinner with a user move or a computer move
\* that is not in the list does not return one of 'Draw', 'Computer wins',
\* 'You win'.
C11_UnknownMoveReported ==
    (/\ winnerCall # NoCall
     /\ \/ winnerCall.userMove \notin Range(moves)
        \/ winnerCall.computerMove \notin Range(moves))
        => winnerCall.result \notin Outcomes

\* the list has even length, fewer than three entries or a repeated label
BadMoveList(a) ==
    \/ Len(a) % 2 = 0
    \/ Len(a) < 3
    \/ \E i, j \in 1..Len(a) : i # j /\ a[i] = a[j]

\* C12: once the argument check has run, a list of even length, of fewer than
\* three entries or with a repeated label has ended the process in Rejected with
\* the two error lines on stderr, no session, no key, no computer move, no HMAC
\* and nothing on the console; every other list has a session over exactly that
\* list and nothing on stderr.
C12_ConfigurationError ==
    pc # "Start"
        => /\ BadMoveList(args)
                 => /\ pc = "Rejected"
                    /\ err = ErrorLines
                    /\ moves = <<>>
                    /\ key = <<>>
                    /\ computerMove = ""
                    /\ hmac = <<>>
                    /\ out = <<>>
                    /\ draws = NoDraws
           /\ ~BadMoveList(args)
                 => /\ pc \in SessionStates \cup {"Exited"}
                    /\ moves = args
                    /\ err = <<>>

\* C12 witness: a list of odd length 5 with a repeated label has been rejected
C12_Witness ==
    /\ pc = "Rejected"
    /\ Len(args) = 5
    /\ SetSize(args) = 4
    /\ err # <<>>

\* C13: over [Rock, Paper, Scissors] a call with the user's move Rock returns
\* 'You win' against Scissors, 'Computer wins' against Paper and 'Draw' against
\* Rock.
C13_ClassicFixture ==
    (/\ moves = <<"Rock", "Paper", "Scissors">>
     /\ winnerCall # NoCall
     /\ winnerCall.userMove = "Rock")
        => /\ winnerCall.computerMove = "Scissors" => winnerCall.result = "You win"
           /\ winnerCall.computerMove = "Paper" => winnerCall.result = "Computer wins"
           /\ winnerCall.computerMove = "Rock" => winnerCall.result = "Draw"

\* C13 witness: the call determineWinner(Rock, Scissors) over [Rock, Paper,
\* Scissors] has returned 'You win'
C13_Witness ==
    /\ moves = <<"Rock", "Paper", "Scissors">>
    /\ winnerCall = [userMove |-> "Rock", computerMove |-> "Scissors",
                     result |-> "You win"]

\* C14: over [Rock, Spock, Paper, Lizard, Scissors] a call with the user's move
\* Rock returns 'You win' against Lizard and 'Computer wins' against Spock.
C14_FiveMoveFixture ==
    (/\ moves = <<"Rock", "Spock", "Paper", "Lizard", "Scissors">>
     /\ winnerCall # NoCall
     /\ winnerCall.userMove = "Rock")
        => /\ winnerCall.computerMove = "Lizard" => winnerCall.result = "You win"
           /\ winnerCall.computerMove = "Spock" => winnerCall.result = "Computer wins"

\* C14 witness: the call determineWinner(Rock, Lizard) over the five moves has
\* returned 'You win'
C14_Witness ==
    /\ moves = <<"Rock", "Spock", "Paper", "Lizard", "Scissors">>
    /\ winnerCall = [userMove |-> "Rock", computerMove |-> "Lizard",
                     result |-> "You win"]

----------------------------------------------------------------------------
(* Claims about the inputs of a session *)

\* the key and the move that the list and the draws of start() determine
DrawnKey == generateKey(draws.bytes)

DrawnMove == Nth0(args, FloorRandomTimes(draws.k, Len(args)))

\* the number parseInt reads in a chunk
SelectionNumber(d) == ParseInt(Trim(d))

\* the chunk selects one of the moves 1..N
SelectsMove(d) ==
    /\ ~SelectionNumber(d).nan
    /\ SelectionNumber(d).val \in 1..Len(moves)

\* this step is the listener handling one chunk while the session awaits a move
HandlesInput == pc = "AwaitingHumanMove" /\ nInputs' = nInputs + 1

\* C15: whatever inputs have been handled, the tag on the console is the HMAC
\* of the move and under the key that the list and the draws of start()
\* determine, and in Resolved the key and the computer move on the console are
\* that key and that move: two sessions with the same list and the same draws
\* show the same tag, key and move.
C15_IndependentOfInput ==
    /\ pc \in {"AwaitingHumanMove", "Resolved", "Exited"}
          => /\ Shown("HMAC") = <<generateHMAC(DrawnKey, DrawnMove)>>
             /\ key = DrawnKey
             /\ computerMove = DrawnMove
    /\ pc = "Resolved"
          => /\ Shown("HMAC key") = <<DrawnKey>>
             /\ Shown("Computer move") = <<DrawnMove>>

\* C15 witness: a session resolved after three inputs, the user's move being
\* another move than the computer's, shows the drawn key and move
C15_Witness ==
    /\ pc = "Resolved"
    /\ nInputs = 3
    /\ winnerCall.userMove # DrawnMove
    /\ Shown("Computer move") = <<DrawnMove>>
    /\ Shown("HMAC key") = <<DrawnKey>>

\* C16: a step that handles '?' or a selection whose number is missing or
\* outside 1..N leaves the key, the computer's move, the HMAC, the tag on the
\* console and the list unchanged and the session in AwaitingHumanMove.
C16_LoopKeepsCommitment ==
    [][ (/\ HandlesInput
         /\ Trim(lastInput') # <<"0">>
         /\ (Trim(lastInput') = <<"?">> \/ ~SelectsMove(lastInput')))
            => /\ pc' = "AwaitingHumanMove"
               /\ key' = key
               /\ computerMove' = computerMove
               /\ hmac' = hmac
               /\ moves' = moves
               /\ Shown("HMAC")' = Shown("HMAC") ]_vars

\* C16 witness: three inputs handled in sequence, a help request and invalid
\* selections among them, and the session still awaits a move
C16_Witness ==
    /\ pc = "AwaitingHumanMove"
    /\ nInputs = 3
    /\ table # <<>>
    /\ \E i \in 1..Len(out) : out[i] = Line("text", "Invalid move. Please try again.")
    /\ Shown("HMAC") = <<hmac>>

\* C17: the index drawn for the computer's move lies in 0..N-1 and the
\* computer's move is a move of the list; whenever determineWinner has been
\* called, the index read from the input lies in 0..N-1 and both arguments are
\* moves of the list.
C17_CallsOnMembers ==
    /\ pc \in {"Committed", "AwaitingHumanMove", "Resolved", "Exited"}
          => /\ FloorRandomTimes(draws.k, Len(moves)) \in 0..(Len(moves) - 1)
             /\ computerMove \in Range(moves)
    /\ winnerCall # NoCall
          => /\ SelectionNumber(lastInput).val - 1 \in 0..(Len(moves) - 1)
             /\ winnerCall.userMove \in Range(moves)
             /\ winnerCall.computerMove \in Range(moves)
             /\ winnerCall.computerMove = computerMove

\* C17 witness: determineWinner has been called with the last move of seven for
\* the user and the first for the computer
C17_Witness ==
    /\ winnerCall # NoCall
    /\ Len(moves) = 7
    /\ IndexOf(moves, winnerCall.userMove) = 6
    /\ IndexOf(moves, winnerCall.computerMove) = 0

\* C18: a session leaves AwaitingHumanMove only by handling an input; it
\* enters Resolved only in a step that handles a selection whose number lies
\* in 1..N, and every step that handles such a selection enters Resolved.
C18_ResolvedOnlyByValidInput ==
    [][ /\ (pc = "AwaitingHumanMove" /\ pc' # pc) => HandlesInput
        /\ (pc # "Resolved" /\ pc' = "Resolved")
              => HandlesInput /\ SelectsMove(lastInput')
        /\ (HandlesInput /\ SelectsMove(lastInput')) => pc' = "Resolved" ]_vars

\* C18 witness: a session resolved by a selection that follows two inputs that
\* were no selection
C18_Witness ==
    /\ pc = "Resolved"
    /\ nInputs = 3
    /\ SelectsMove(lastInput)
    /\ SelectionNumber(lastInput).val = Len(moves)

\* C19: a step that handles the input '0' ends the session in Exited, printing
\* only the exit line; no key, computer move or outcome is on the console in
\* Exited, and no step follows.
C19_ExitAbandonsCommitment ==
    [][ /\ (HandlesInput /\ Trim(lastInput') = <<"0">>)
              => /\ pc' = "Exited"
                 /\ out' = out \o <<Line("text", "Exiting the game.")>>
        /\ pc' = "Exited"
              => /\ Shown("HMAC key")' = <<>>
                 /\ Shown("Computer move")' = <<>>
                 /\ Shown("result")' = <<>>
                 /\ Shown("HMAC")' = <<hmac>>
        /\ pc # "Exited" ]_vars

\* C19 witness: the first input was '0': the tag is on the console, the key is
\* not, and the session has ended
C19_Witness ==
    /\ pc = "Exited"
    /\ nInputs = 1
    /\ Trim(lastInput) = <<"0">>
    /\ Shown("HMAC") = <<hmac>>
    /\ Shown("HMAC key") = <<>>

====
